---- MODULE Spec2Model ----
(***************************************************************************)
(* A model of gridpack_manager.py: the configuration-driven command-line   *)
(* manager.  One action per command-line action of main(); every action is *)
(* one whole run of the program (load the configuration, run the handler,  *)
(* exit).  The state is the configuration document, the filesystem, and    *)
(* the observable result of the most recent run.                           *)
(*                                                                         *)
(* JSON objects (Python dicts) are sequences of key/value pairs, in the    *)
(* document's key order, with distinct keys.  Strings are TLA+ strings.    *)
(* A filesystem path is the sequence of its components.                    *)
(***************************************************************************)
EXTENDS Integers, Sequences, FiniteSets, TLC

VARIABLES
    config,        \* the configuration document: load_config reads it on every run
    fs,            \* the filesystem
    last,          \* the result of the most recent run
    materialized,  \* the triples a make-cards --doit run has created a directory for
    dirsMade       \* whether a make-dirs --doit run has run to its end

vars == <<config, fs, last, materialized, dirsMade>>

----------------------------------------------------------------------------
(* Sequences and strings *)

Range(s) == {s[i] : i \in DOMAIN s}

Min(a, b) == IF a < b THEN a ELSE b

\* The first n elements of a sequence (all of it when it is shorter).
Prefix(s, n) == SubSeq(s, 1, Min(n, Len(s)))

\* str.replace(old, new): every non-overlapping occurrence of old, scanning
\* from the left, is replaced by new.  old is never empty here.
RECURSIVE Replace(_, _, _)
Replace(s, old, new) ==
    IF Len(s) < Len(old) THEN s
    ELSE IF SubSeq(s, 1, Len(old)) = old
         THEN new \o Replace(SubSeq(s, Len(old) + 1, Len(s)), old, new)
         ELSE SubSeq(s, 1, 1) \o Replace(SubSeq(s, 2, Len(s)), old, new)

----------------------------------------------------------------------------
(* Python dicts: ordered key/value pairs *)

KV(k, v) == [key |-> k, value |-> v]

\* k in d
In(k, d) == \E i \in DOMAIN d : d[i].key = k

\* d[k], for k in d
Get(d, k) == d[CHOOSE i \in DOMAIN d : d[i].key = k].value

\* d.keys(), in iteration order
Keys(d) == [i \in DOMAIN d |-> d[i].key]

\* set(d.keys())
KeySet(d) == {d[i].key : i \in DOMAIN d}

\* The dict d without the keys outside S (the order of the rest is kept).
RECURSIVE Restrict(_, _)
Restrict(d, S) ==
    IF d = <<>> THEN <<>>
    ELSE (IF Head(d).key \in S THEN <<Head(d)>> ELSE <<>>) \o Restrict(Tail(d), S)

\* The dict d with the value of key k replaced by v.
Put(d, k, v) == [i \in DOMAIN d |-> IF d[i].key = k THEN KV(k, v) ELSE d[i]]

----------------------------------------------------------------------------
(* The filesystem: a function from the existing paths to their nodes.  It  *)
(* is closed under prefixes, and every proper prefix of a path is a        *)
(* directory.                                                              *)

Dir == [kind |-> "dir", content |-> ""]

File(content) == [kind |-> "file", content |-> content]

\* os.path.join(base, a, b, ...)
join(base, rest) == <<base>> \o rest

\* The text of a path, as the program prints it.
RECURSIVE PathStr(_)
PathStr(p) ==
    IF Len(p) = 0 THEN ""
    ELSE IF Len(p) = 1 THEN p[1]
    ELSE p[1] \o "/" \o PathStr(Tail(p))

\* os.path.exists(p)
exists(f, p) == p \in DOMAIN f

\* os.path.isdir(p)
isdir(f, p) == p \in DOMAIN f /\ f[p].kind = "dir"

\* os.path.isfile(p)
isfile(f, p) == p \in DOMAIN f /\ f[p].kind = "file"

\* os.listdir(p), as a set: the order the entries come in is not specified.
listdir(f, p) ==
    {q[Len(p) + 1] : q \in {r \in DOMAIN f : Len(r) = Len(p) + 1 /\ SubSeq(r, 1, Len(p)) = p}}

\* The non-empty prefixes of p, p included.
Prefixes(p) == {SubSeq(p, 1, n) : n \in 1..Len(p)}

\* os.makedirs(p, exist_ok=True): the exception it raises ("" when none).
\* A prefix that is a regular file makes mkdir fail; exist_ok only forgives
\* an existing directory.
makedirsError(f, p) ==
    IF \E q \in Prefixes(p) \ {p} : isfile(f, q) THEN "NotADirectoryError"
    ELSE IF isfile(f, p) THEN "FileExistsError"
    ELSE ""

\* os.makedirs(p, exist_ok=True): the filesystem after it (unchanged when it
\* raises: the file in the way is found before any directory is made).
makedirs(f, p) ==
    IF makedirsError(f, p) # "" THEN f
    ELSE [q \in DOMAIN f \cup Prefixes(p) |-> IF q \in DOMAIN f THEN f[q] ELSE Dir]

\* open(p).read(): the exception it raises ("" when none).
openError(f, p) ==
    IF isfile(f, p) THEN ""
    ELSE IF isdir(f, p) THEN "IsADirectoryError"
    ELSE IF \E q \in Prefixes(p) : isfile(f, q) THEN "NotADirectoryError"
    ELSE "FileNotFoundError"

\* open(p, 'w').write(content), the directory of p existing: p is created or
\* truncated and holds content.
write(f, p, content) ==
    [q \in DOMAIN f \cup {p} |-> IF q = p THEN File(content) ELSE f[q]]

----------------------------------------------------------------------------
(* The observable result of a run of the program *)

NoArgs == <<"", "", "">>

\* A run of `action`: what it printed (out), the message or exception that
\* ended it (err, "" when it ended normally) and the exit code of the process.
\* findings holds what check-cards reported about single cards (its loops run
\* in os.listdir order, which is not specified, so they are kept as a set).
Run(action, doit, args, out, err, code) ==
    [action |-> action, doit |-> doit, args |-> args,
     out |-> out, err |-> err, exit |-> code, findings |-> {}]

\* An uncaught exception (or sys.exit with a message) ends the process with
\* exit code 1.
Raised(action, doit, args, out, err) == Run(action, doit, args, out, err, 1)

Returned(action, doit, args, out) == Run(action, doit, args, out, "", 0)

NoRun == Returned("none", FALSE, NoArgs, <<>>)

Rule == "----------------------------------------"

----------------------------------------------------------------------------
(* validate-config *)

\* A validator that forgets the last required section.
required_keys_short == <<"paths", "generators", "campaigns", "tunes">>

required_keys == <<"paths", "generators", "campaigns", "tunes", "parton_showers">>

required_paths ==
    <<"cards_dir", "campaigns_dir", "fragments_dir", "skeletons_dir", "eos_base_path">>

\* for key in keys: if key not in d: errors.append(prefix + key)
RECURSIVE MissingKeys(_, _, _)
MissingKeys(keys, d, prefix) ==
    IF keys = <<>> THEN <<>>
    ELSE (IF In(Head(keys), d) THEN <<>> ELSE <<prefix \o Head(keys)>>)
         \o MissingKeys(Tail(keys), d, prefix)

SchemaErrors(c) ==
    IF In("dataset_schema", c)
    THEN (IF In("mandatory_attributes", Get(c, "dataset_schema")) THEN <<>>
          ELSE <<"dataset_schema missing 'mandatory_attributes'">>)
         \o
         (IF In("optional_attributes", Get(c, "dataset_schema")) THEN <<>>
          ELSE <<"dataset_schema missing 'optional_attributes'">>)
    ELSE <<"Missing dataset_schema in config">>

\* The errors list of validate_config, in the order it is built.
ValidateErrors(c) ==
    MissingKeys(required_keys, c, "Missing required key: ")
    \o (IF In("paths", c)
        THEN MissingKeys(required_paths, Get(c, "paths"), "Missing required path: ")
        ELSE <<>>)
    \o SchemaErrors(c)

\* A validator that warns about every generator, described or not.
GeneratorWarningsAll(gens) ==
    [i \in DOMAIN gens |-> "Generator " \o gens[i].key \o " missing description"]

RECURSIVE GeneratorWarnings(_)
GeneratorWarnings(gens) ==
    IF gens = <<>> THEN <<>>
    ELSE (IF In("description", Head(gens).value) THEN <<>>
          ELSE <<"Generator " \o Head(gens).key \o " missing description">>)
         \o GeneratorWarnings(Tail(gens))

RECURSIVE CampaignWarnings(_)
CampaignWarnings(camps) ==
    IF camps = <<>> THEN <<>>
    ELSE (IF In("tune", Head(camps).value) THEN <<>>
          ELSE <<"Campaign " \o Head(camps).key \o " missing tune">>)
         \o
         (IF In("beam", Head(camps).value) THEN <<>>
          ELSE <<"Campaign " \o Head(camps).key \o " missing beam energy">>)
         \o CampaignWarnings(Tail(camps))

\* The warnings list of validate_config, in the order it is built.
ValidateWarnings(c) ==
    (IF In("generators", c) THEN GeneratorWarnings(Get(c, "generators")) ELSE <<>>)
    \o (IF In("campaigns", c) THEN CampaignWarnings(Get(c, "campaigns")) ELSE <<>>)

\* print(f"  {label}: {m}") for m in msgs
Labelled(label, msgs) == [i \in DOMAIN msgs |-> "  " \o label \o ": " \o msgs[i]]

\* What validate_config prints.
ValidateReport(errors, warnings) ==
    (IF errors # <<>> THEN <<"Validation FAILED:">> \o Labelled("ERROR", errors) ELSE <<>>)
    \o (IF warnings # <<>> THEN <<"Warnings:">> \o Labelled("WARNING", warnings) ELSE <<>>)
    \o (IF errors = <<>> /\ warnings = <<>> THEN <<"Configuration is valid!">> ELSE <<>>)

\* validate_config(config): the boolean it returns.
validate_config(c) == Len(ValidateErrors(c)) = 0

\* main(), --action validate-config: sys.exit(0 if validate_config(config) else 1)
ValidateConfig ==
    /\ last' = Run("validate-config", FALSE, NoArgs,
                   ValidateReport(ValidateErrors(config), ValidateWarnings(config)),
                   "", IF validate_config(config) THEN 0 ELSE 1)
    /\ UNCHANGED <<config, fs, materialized, dirsMade>>

----------------------------------------------------------------------------
(* The list-* actions *)

\* for name, info in d.items(): print(f"  {name}: {info['description']}")
\* The lines printed, and the exception that stopped the loop ("" when none).
RECURSIVE DescribedLines(_)
DescribedLines(d) ==
    IF d = <<>> THEN [out |-> <<>>, err |-> ""]
    ELSE IF ~In("description", Head(d).value) THEN [out |-> <<>>, err |-> "KeyError"]
    ELSE LET rest == DescribedLines(Tail(d))
         IN  [out |-> <<"  " \o Head(d).key \o ": " \o Get(Head(d).value, "description")>>
                      \o rest.out,
              err |-> rest.err]

\* info.get(k, 'N/A')
GetOr(d, k, default) == IF In(k, d) THEN Get(d, k) ELSE default

CampaignLines(d) ==
    [i \in DOMAIN d |->
        "  " \o d[i].key \o ": tune=" \o GetOr(d[i].value, "tune", "N/A")
        \o ", beam=" \o GetOr(d[i].value, "beam", "N/A") \o " GeV"]

\* A list-* action over config[section]: the title and the rule are printed
\* before the section is read, so they are printed even when it is absent.
ListRun(action, title, section, lines) ==
    IF ~In(section, config)
    THEN Raised(action, FALSE, NoArgs, <<title, Rule>>, "KeyError")
    ELSE Run(action, FALSE, NoArgs, <<title, Rule>> \o lines.out, lines.err,
             IF lines.err = "" THEN 0 ELSE 1)

ListGenerators ==
    /\ last' = ListRun("list-generators", "Available Generators:", "generators",
                       DescribedLines(GetOr(config, "generators", <<>>)))
    /\ UNCHANGED <<config, fs, materialized, dirsMade>>

ListCampaigns ==
    /\ last' = ListRun("list-campaigns", "Available Campaigns:", "campaigns",
                       [out |-> CampaignLines(GetOr(config, "campaigns", <<>>)), err |-> ""])
    /\ UNCHANGED <<config, fs, materialized, dirsMade>>

ListProcesses ==
    /\ last' = ListRun("list-processes", "Available Physics Processes:", "physics_processes",
                       [out |-> LET ps == GetOr(config, "physics_processes", <<>>)
                                IN  [i \in DOMAIN ps |-> "  " \o ps[i]],
                        err |-> ""])
    /\ UNCHANGED <<config, fs, materialized, dirsMade>>

ListTunes ==
    /\ last' = ListRun("list-tunes", "Available Tunes:", "tunes",
                       [out |-> LET ts == GetOr(config, "tunes", <<>>)
                                IN  [i \in DOMAIN ts |-> "  " \o ts[i].key \o ": " \o ts[i].value],
                        err |-> ""])
    /\ UNCHANGED <<config, fs, materialized, dirsMade>>

ListPartonShowers ==
    /\ last' = ListRun("list-parton-showers", "Available Parton Shower Configurations:",
                       "parton_showers",
                       DescribedLines(GetOr(config, "parton_showers", <<>>)))
    /\ UNCHANGED <<config, fs, materialized, dirsMade>>

----------------------------------------------------------------------------
(* make-dirs *)

\* Whether config[section][key] can be read.
Has2(c, section, key) == In(section, c) /\ In(key, Get(c, section))

\* The paths of the three nested loops of make_dirs, in the order they are
\* visited: campaigns outermost, processes innermost.
DirPaths(base_path, campaigns, generators, processes) ==
    LET ng == Len(generators)
        np == Len(processes)
    IN  [i \in 1..(Len(campaigns) * ng * np) |->
            join(base_path, <<campaigns[((i - 1) \div (ng * np)) + 1],
                              generators[(((i - 1) \div np) % ng) + 1],
                              processes[((i - 1) % np) + 1]>>)]

\* A make_dirs that takes every path for missing.
AbsentAlways(f, fullpath) == TRUE

\* if not os.path.exists(fullpath):
Absent(f, fullpath) == ~exists(f, fullpath)

\* A materializer that acts without --doit too.
PerformAlways(doit) == TRUE

\* if doit: (make_dirs and make_cards act only then)
Perform(doit) == doit

\* The loop body of make_dirs over the paths todo, from filesystem f with
\* `created` and `out` so far: the state when the loop ends or makedirs raises.
RECURSIVE MakeDirsLoop(_, _, _, _, _)
MakeDirsLoop(f, todo, doit, created, out) ==
    IF todo = <<>> THEN [fs |-> f, created |-> created, out |-> out, err |-> ""]
    ELSE IF ~Absent(f, Head(todo)) THEN MakeDirsLoop(f, Tail(todo), doit, created, out)
    ELSE LET fullpath == Head(todo)
             created2 == Append(created, fullpath)
             out2     == Append(out, "Would create: " \o PathStr(fullpath))
         IN  IF Perform(doit) /\ makedirsError(f, fullpath) # ""
             THEN [fs |-> f, created |-> created2, out |-> out2,
                   err |-> makedirsError(f, fullpath)]
             ELSE MakeDirsLoop(IF Perform(doit) THEN makedirs(f, fullpath) ELSE f,
                               Tail(todo), doit, created2, out2)

\* The closing message of make_dirs.
MakeDirsSummary(created, doit) ==
    IF created = <<>> THEN <<"All directories already exist.">>
    ELSE IF ~doit
         THEN <<"\nRun with --doit to create " \o ToString(Len(created)) \o " directories.">>
         ELSE <<>>

\* make_dirs(config, doit): the filesystem and the result of the run.
make_dirs(c, f, doit) ==
    IF ~(Has2(c, "paths", "eos_base_path") /\ In("generators", c)
         /\ In("campaigns", c) /\ In("physics_processes", c))
    THEN [fs |-> f, run |-> Raised("make-dirs", doit, NoArgs, <<>>, "KeyError")]
    ELSE LET loop == MakeDirsLoop(f,
                         DirPaths(Get(Get(c, "paths"), "eos_base_path"),
                                  Keys(Get(c, "campaigns")),
                                  Keys(Get(c, "generators")),
                                  Get(c, "physics_processes")),
                         doit, <<>>, <<>>)
         IN  [fs  |-> loop.fs,
              run |-> IF loop.err # ""
                      THEN Raised("make-dirs", doit, NoArgs, loop.out, loop.err)
                      ELSE Returned("make-dirs", doit, NoArgs,
                                    loop.out \o MakeDirsSummary(loop.created, doit))]

MakeDirs(doit) ==
    \E r \in {make_dirs(config, fs, doit)} :
        /\ fs' = r.fs
        /\ last' = r.run
        /\ dirsMade' = (dirsMade \/ (doit /\ r.run.err = ""))
        /\ UNCHANGED <<config, materialized>>

----------------------------------------------------------------------------
(* make-cards *)

\* dst_name = skel_file.replace('skeleton', dataset_name)
DstName(skel_file, dataset_name) == Replace(skel_file, "skeleton", dataset_name)

\* content.replace('$process', dataset_name)
Substitute(content, dataset_name) == Replace(content, "$process", dataset_name)

\* The first loop of make_cards: print(f"  {skel_file} -> {dst_name}")
PlanLines(skeleton_files, dataset_name) ==
    [i \in DOMAIN skeleton_files |->
        "  " \o skeleton_files[i] \o " -> " \o DstName(skeleton_files[i], dataset_name)]

\* The copy loop of make_cards over the skeleton files todo: the filesystem
\* when the loop ends or open() raises, and the exception ("" when none).
RECURSIVE CopyLoop(_, _, _, _, _)
CopyLoop(f, todo, skeleton_path, target_path, dataset_name) ==
    IF todo = <<>> THEN [fs |-> f, err |-> ""]
    ELSE LET src == Append(skeleton_path, Head(todo))
             dst == Append(target_path, DstName(Head(todo), dataset_name))
         IN  IF openError(f, src) # "" THEN [fs |-> f, err |-> openError(f, src)]
             ELSE CopyLoop(write(f, dst, Substitute(f[src].content, dataset_name)),
                           Tail(todo), skeleton_path, target_path, dataset_name)

\* The `if doit:` branch of make_cards.
Materialize(f, skeleton_files, skeleton_path, target_path, dataset_name) ==
    IF makedirsError(f, target_path) # ""
    THEN [fs |-> f, err |-> makedirsError(f, target_path)]
    ELSE CopyLoop(makedirs(f, target_path), skeleton_files, skeleton_path,
                  target_path, dataset_name)

\* A make_cards that only refuses a target that is a regular file.
TakenByFile(f, target_path) == isfile(f, target_path)

\* if os.path.exists(target_path): refuse to overwrite
Taken(f, target_path) == exists(f, target_path)

\* main(), --action make-cards, then make_cards(config, generator, process,
\* dataset_name, doit): the filesystem and the result of the run.
make_cards(c, f, generator, process, dataset_name, doit) ==
    LET args == <<generator, process, dataset_name>>
        stop(out, err) == [fs |-> f, run |-> Raised("make-cards", doit, args, out, err)]
    IN
    IF generator = "" \/ process = "" \/ dataset_name = ""
    THEN stop(<<>>, "ERROR: make-cards requires --generator, --process, and --dataset")
    ELSE IF ~In("generators", c) THEN stop(<<>>, "KeyError")
    ELSE IF ~In(generator, Get(c, "generators"))
    THEN stop(<<>>, "ERROR: Unknown generator: " \o generator)
    ELSE IF ~(Has2(c, "paths", "cards_dir") /\ Has2(c, "paths", "skeletons_dir"))
    THEN stop(<<>>, "KeyError")
    ELSE
    LET target_path   == join(Get(Get(c, "paths"), "cards_dir"),
                              <<generator, process, dataset_name>>)
        skeleton_path == join(Get(Get(c, "paths"), "skeletons_dir"), <<generator>>)
        skeleton_files == GetOr(Get(Get(c, "generators"), generator), "skeleton_files", <<>>)
        plan == <<"Creating card directory: " \o PathStr(target_path)>>
                \o PlanLines(skeleton_files, dataset_name)
    IN
    IF Taken(f, target_path)
    THEN stop(<<>>, "ERROR: Path already exists: " \o PathStr(target_path))
    ELSE IF ~exists(f, skeleton_path)
    THEN stop(<<>>, "ERROR: Skeleton path not found: " \o PathStr(skeleton_path))
    ELSE IF ~Perform(doit)
    THEN [fs |-> f,
          run |-> Returned("make-cards", doit, args,
                           Append(plan, "\nRun with --doit to create the directory."))]
    ELSE LET made == Materialize(f, skeleton_files, skeleton_path, target_path, dataset_name)
         IN  [fs  |-> made.fs,
              run |-> IF made.err # ""
                      THEN Raised("make-cards", doit, args, plan, made.err)
                      ELSE Returned("make-cards", doit, args,
                                    Append(plan, "Card directory created: "
                                                 \o PathStr(target_path)))]

\* The make-cards run that just ended created its card directory.
Created(run) ==
    run.action = "make-cards" /\ run.doit /\ run.err = ""

MakeCards(generator, process, dataset_name, doit) ==
    \E r \in {make_cards(config, fs, generator, process, dataset_name, doit)} :
        /\ fs' = r.fs
        /\ last' = r.run
        /\ materialized' = IF Created(r.run)
                           THEN materialized \cup {<<generator, process, dataset_name>>}
                           ELSE materialized
        /\ UNCHANGED <<config, dirsMade>>

----------------------------------------------------------------------------
(* check-cards *)

\* The JSON documents among the texts a file of the model can hold.  Every
\* other text a file can hold is not JSON.
JsonObjects ==
    << KV("{}", {}),
       KV("{\"a\": 1}", {"a"}),
       KV("{\"a\": 1, \"c\": 1}", {"a", "c"}),
       KV("{\"a\": 1, \"b\": 1}", {"a", "b"}),
       KV("{\"a\": 1, \"b\": 1, \"x\": 1}", {"a", "b", "x"}),
       KV("{\"a\": \"$process\", \"b\": 1}", {"a", "b"}),
       KV("{\"a\": \"d\", \"b\": 1}", {"a", "b"}),
       KV("{\"a\": \"e\", \"b\": 1}", {"a", "b"}),
       KV("{\"a\": \"f\", \"b\": 1}", {"a", "b"}) >>

\* JSON documents that are not objects: json.load returns a list, a string,
\* a number or None, none of which has keys().
JsonOthers == {"[]", "\"$process\"", "\"d\"", "\"e\"", "\"f\"", "1", "null"}

\* json.load(f) followed by set(data.keys()): the keys, or the exception.
json_keys(text) ==
    IF In(text, JsonObjects) THEN [err |-> "", keys |-> Get(JsonObjects, text)]
    ELSE IF text \in JsonOthers THEN [err |-> "AttributeError", keys |-> {}]
    ELSE [err |-> "JSONDecodeError", keys |-> {}]

Finding(kind, path, keys) == [kind |-> kind, path |-> path, keys |-> keys]

\* The counters and reports of check_cards, and the exception that ended it.
Tally(errors, checked, findings, err) ==
    [errors |-> errors, checked |-> checked, findings |-> findings, err |-> err]

\* A checker that counts a card with unknown keys as an error too.
CheckCardStrict(f, dataset_path, dataset, mandatory_keys, optional_keys, t) ==
    LET json_path == Append(dataset_path, dataset \o ".json")
        data    == IF isfile(f, json_path) THEN json_keys(f[json_path].content)
                   ELSE [err |-> "missing", keys |-> {}]
        flawed  == data.err # "" \/ mandatory_keys \ data.keys # {}
                   \/ (data.keys \ mandatory_keys) \ optional_keys # {}
    IN  Tally(t.errors + (IF flawed THEN 1 ELSE 0),
              t.checked + (IF data.err = "missing" THEN 0 ELSE 1),
              t.findings \cup (IF flawed THEN {Finding("FLAWED", json_path, {})} ELSE {}),
              IF data.err = "AttributeError" THEN data.err ELSE "")

\* The body of the innermost loop for one dataset directory.
CheckCard(f, dataset_path, dataset, mandatory_keys, optional_keys, t) ==
    LET json_path == Append(dataset_path, dataset \o ".json")
    IN
    IF ~isfile(f, json_path)
    THEN Tally(t.errors + 1, t.checked,
               t.findings \cup {Finding("MISSING", json_path, {})}, "")
    ELSE
    LET data    == json_keys(f[json_path].content)
        missing == mandatory_keys \ data.keys
        unknown == (data.keys \ mandatory_keys) \ optional_keys
    IN
    IF data.err = "JSONDecodeError"
    THEN Tally(t.errors + 1, t.checked + 1,
               t.findings \cup {Finding("JSON ERROR", json_path, {})}, "")
    ELSE IF data.err # ""
    THEN Tally(t.errors, t.checked + 1, t.findings, data.err)
    ELSE Tally(t.errors + (IF missing # {} THEN 1 ELSE 0), t.checked + 1,
               t.findings
               \cup (IF missing # {} THEN {Finding("MISSING KEYS", json_path, missing)} ELSE {})
               \cup (IF unknown # {} THEN {Finding("UNKNOWN KEYS", json_path, unknown)} ELSE {}),
               "")

\* os.listdir(p) in the order `order` (a sequence holding every entry name).
Listing(f, p, order) ==
    LET entries == listdir(f, p)
    IN  SelectSeq(order, LAMBDA n : n \in entries)

\* The orders os.listdir gives the entries in: one for the entries of the
\* generator directories, one for the entries of the process directories.
ListOrder(processes, datasets) == [processes |-> processes, datasets |-> datasets]

\* for dataset in os.listdir(process_path): ...
RECURSIVE DatasetLoop(_, _, _, _, _, _)
DatasetLoop(f, process_path, todo, mandatory_keys, optional_keys, t) ==
    IF todo = <<>> \/ t.err # "" THEN t
    ELSE DatasetLoop(f, process_path, Tail(todo), mandatory_keys, optional_keys,
             IF ~isdir(f, Append(process_path, Head(todo))) THEN t
             ELSE CheckCard(f, Append(process_path, Head(todo)), Head(todo),
                            mandatory_keys, optional_keys, t))

\* for process in os.listdir(gen_path): ...
RECURSIVE ProcessLoop(_, _, _, _, _, _, _)
ProcessLoop(f, gen_path, todo, order, mandatory_keys, optional_keys, t) ==
    IF todo = <<>> \/ t.err # "" THEN t
    ELSE ProcessLoop(f, gen_path, Tail(todo), order, mandatory_keys, optional_keys,
             IF ~isdir(f, Append(gen_path, Head(todo))) THEN t
             ELSE DatasetLoop(f, Append(gen_path, Head(todo)),
                              Listing(f, Append(gen_path, Head(todo)), order.datasets),
                              mandatory_keys, optional_keys, t))

\* for generator in config['generators'].keys(): ...
RECURSIVE GeneratorLoop(_, _, _, _, _, _, _)
GeneratorLoop(f, cards_dir, todo, order, mandatory_keys, optional_keys, t) ==
    IF todo = <<>> \/ t.err # "" THEN t
    ELSE GeneratorLoop(f, cards_dir, Tail(todo), order, mandatory_keys, optional_keys,
             LET gen_path == join(cards_dir, <<Head(todo)>>)
             IN  IF ~exists(f, gen_path) THEN t
                 ELSE IF ~isdir(f, gen_path)
                 THEN Tally(t.errors, t.checked, t.findings, "NotADirectoryError")
                 ELSE ProcessLoop(f, gen_path, Listing(f, gen_path, order.processes), order,
                                  mandatory_keys, optional_keys, t))

CheckRun(out, err, code, findings) ==
    [Run("check-cards", FALSE, NoArgs, out, err, code) EXCEPT !.findings = findings]

CheckSummary(checked, errors) ==
    "\nChecked " \o ToString(checked) \o " card files, found "
    \o ToString(errors) \o " errors."

\* main(), --action check-cards: sys.exit(0 if check_cards(config) else 1),
\* os.listdir giving its entries in the order `order`.
check_cards(c, f, order) ==
    IF ~In("dataset_schema", c)
    THEN CheckRun(<<"ERROR: Missing dataset_schema in config">>, "", 1, {})
    ELSE IF ~(Has2(c, "dataset_schema", "mandatory_attributes")
              /\ Has2(c, "dataset_schema", "optional_attributes"))
    THEN CheckRun(<<"ERROR: dataset_schema missing required keys">>, "", 1, {})
    ELSE IF ~(Has2(c, "paths", "cards_dir") /\ In("generators", c))
    THEN CheckRun(<<>>, "KeyError", 1, {})
    ELSE
    LET t == GeneratorLoop(f, Get(Get(c, "paths"), "cards_dir"),
                           Keys(Get(c, "generators")), order,
                           KeySet(Get(Get(c, "dataset_schema"), "mandatory_attributes")),
                           KeySet(Get(Get(c, "dataset_schema"), "optional_attributes")),
                           Tally(0, 0, {}, ""))
    IN  IF t.err # "" THEN CheckRun(<<>>, t.err, 1, t.findings)
        ELSE CheckRun(<<CheckSummary(t.checked, t.errors)>>, "",
                      IF t.errors = 0 THEN 0 ELSE 1, t.findings)

\* The names os.listdir can return `depth` levels below cards_dir.
EntryNames(c, f, depth) ==
    IF ~Has2(c, "paths", "cards_dir") THEN {}
    ELSE {q[Len(q)] : q \in {r \in DOMAIN f :
                                /\ Len(r) = depth + 1
                                /\ r[1] = Get(Get(c, "paths"), "cards_dir")}}

\* The orders os.listdir can give the names S in.
Orders(S) ==
    {o \in [1..Cardinality(S) -> S] : \A i, j \in DOMAIN o : o[i] = o[j] => i = j}

CheckCards(order) ==
    /\ last' = check_cards(config, fs, order)
    /\ UNCHANGED <<config, fs, materialized, dirsMade>>

----------------------------------------------------------------------------
(* The configurations and filesystems the runs start from *)

\* At most this many keys are absent from a configuration document.
MaxMissing == 2

\* This many dataset names are in use.
MaxDatasets == 2

GeneratorNames == <<"g1", "g2">>

ProcessNames == <<"p1">>

DatasetNames == Prefix(<<"d", "e", "f">>, MaxDatasets)

\* A complete configuration document.  g2 lists a skeleton file whose name
\* is also a dataset name.
FullConfig ==
    << KV("paths", << KV("cards_dir", "cards"), KV("campaigns_dir", "campaigns"),
                      KV("fragments_dir", "fragments"), KV("skeletons_dir", "skeletons"),
                      KV("eos_base_path", "eos") >>),
       KV("generators",
          << KV("g1", << KV("description", "first generator"),
                         KV("skeleton_files", <<"skeleton.json", "run_skeleton.dat">>) >>),
             KV("g2", << KV("description", "second generator"),
                         KV("skeleton_files", <<"skeleton", "d">>) >>) >>),
       KV("campaigns",
          << KV("c1", << KV("tune", "t1"), KV("beam", "13600") >>),
             KV("c2", << KV("tune", "t1"), KV("beam", "13000") >>) >>),
       KV("physics_processes", <<"p1", "p2", "p1">>),
       KV("tunes", << KV("t1", "Tunes.t1_cff") >>),
       KV("parton_showers", << KV("ps1", << KV("description", "shower") >>) >>),
       KV("dataset_schema",
          << KV("mandatory_attributes", << KV("a", "text"), KV("b", "number") >>),
             KV("optional_attributes", << KV("c", "text") >>) >>) >>

\* The keys that may be absent, each as the path of keys that leads to it:
\* every section, every entry of paths and of dataset_schema, and every
\* field of a generator, a campaign or a parton shower.
Removable ==
    {<<k>> : k \in KeySet(FullConfig)}
    \cup {<<"paths", k>> : k \in KeySet(Get(FullConfig, "paths"))}
    \cup {<<"dataset_schema", k>> : k \in KeySet(Get(FullConfig, "dataset_schema"))}
    \cup {<<"generators", g, k>> : g \in KeySet(Get(FullConfig, "generators")),
                                   k \in {"description", "skeleton_files"}}
    \cup {<<"campaigns", n, k>> : n \in KeySet(Get(FullConfig, "campaigns")),
                                  k \in {"tune", "beam"}}
    \cup {<<"parton_showers", n, "description">> :
            n \in KeySet(Get(FullConfig, "parton_showers"))}

\* The document d without the key at key path kp.
RECURSIVE RemoveKey(_, _)
RemoveKey(d, kp) ==
    IF Len(kp) = 1 THEN Restrict(d, KeySet(d) \ {kp[1]})
    ELSE IF In(kp[1], d) THEN Put(d, kp[1], RemoveKey(Get(d, kp[1]), Tail(kp)))
    ELSE d

RECURSIVE RemoveKeys(_, _)
RemoveKeys(d, kps) ==
    IF kps = {} THEN d
    ELSE LET kp == CHOOSE x \in kps : TRUE
         IN  RemoveKeys(RemoveKey(d, kp), kps \ {kp})

\* The subsets of S with at most n elements.
RECURSIVE UpTo(_, _)
UpTo(S, n) ==
    IF n = 0 THEN {{}}
    ELSE UpTo(S, n - 1) \cup {T \cup {x} : T \in UpTo(S, n - 1), x \in S}

Configs == {RemoveKeys(FullConfig, kps) : kps \in UpTo(Removable, MaxMissing)}

\* A filesystem from the paths of its directories and the texts of its files.
Tree(dirs, files) ==
    [p \in dirs \cup DOMAIN files |-> IF p \in dirs THEN Dir ELSE File(files[p])]

Nothing == Tree({}, <<>>)

\* The filesystem f without the paths P.
Without(f, P) == [q \in DOMAIN f \ P |-> f[q]]

\* The skeleton directories of g1 and g2, every listed skeleton file there.
Skeletons ==
    Tree({<<"skeletons">>, <<"skeletons", "g1">>, <<"skeletons", "g2">>},
         (<<"skeletons", "g1", "skeleton.json">> :> "{\"a\": \"$process\", \"b\": 1}")
         @@ (<<"skeletons", "g1", "run_skeleton.dat">> :> "run $process, again $process")
         @@ (<<"skeletons", "g2", "skeleton">> :> "\"$process\"")
         @@ (<<"skeletons", "g2", "d">> :> "$proces"))

\* The triples make-cards is run with: every configured generator with
\* every process and dataset name, a generator that is not configured, and a
\* run that leaves --dataset out.
MakeCardsArgs ==
    (Range(GeneratorNames) \X Range(ProcessNames) \X Range(DatasetNames))
    \cup {<<"g0", "p1", "d">>, <<"g1", "p1", "">>}

----------------------------------------------------------------------------
(* The program: any action, any number of times *)

Next ==
    \/ ListGenerators
    \/ ListCampaigns
    \/ ListProcesses
    \/ ListTunes
    \/ ListPartonShowers
    \/ ValidateConfig
    \/ \E doit \in BOOLEAN : MakeDirs(doit)
    \/ \E a \in MakeCardsArgs, doit \in BOOLEAN : MakeCards(a[1], a[2], a[3], doit)
    \/ \E processes \in Orders(EntryNames(config, fs, 2)),
          datasets \in Orders(EntryNames(config, fs, 3)) :
            CheckCards(ListOrder(processes, datasets))

\* Any configuration with at most MaxMissing keys absent, and nothing on disk
\* yet.
InitConfig ==
    /\ config \in Configs
    /\ fs = Nothing
    /\ last = NoRun
    /\ materialized = {}
    /\ dirsMade = FALSE

SpecConfig == InitConfig /\ [][Next]_vars

\* The filesystems the materializer starts from: the skeletons in place and
\* nothing else, and that state with one thing changed: a listed skeleton
\* file of g2 absent, the skeleton directory of g2 absent, an EOS directory
\* already there, a regular file where an EOS campaign directory goes, a card
\* directory already there, a regular file where a generator's card
\* directory goes.
MakeTrees ==
    { Skeletons,
      Without(Skeletons, {<<"skeletons", "g2", "d">>}),
      Without(Skeletons, {<<"skeletons", "g2">>, <<"skeletons", "g2", "skeleton">>,
                          <<"skeletons", "g2", "d">>}),
      Skeletons @@ Tree(Prefixes(<<"eos", "c1", "g1", "p1">>), <<>>),
      Skeletons @@ Tree({<<"eos">>}, <<"eos", "c2">> :> ""),
      Skeletons @@ Tree(Prefixes(<<"cards", "g1", "p1", "d">>),
                        <<"cards", "g1", "p1", "d", "d.json">> :> "{\"a\": 1}"),
      Skeletons @@ Tree({<<"cards">>}, <<"cards", "g2">> :> "") }

InitMake ==
    /\ config = FullConfig
    /\ fs \in MakeTrees
    /\ last = NoRun
    /\ materialized = {}
    /\ dirsMade = FALSE

SpecMake == InitMake /\ [][Next]_vars

\* What can be where a dataset directory of a card tree goes: nothing, a
\* directory without its card, or a directory whose card holds one of these
\* texts (not JSON; a JSON list; objects that lack a mandatory key, that are
\* complete, that hold an unknown key).
CardTexts ==
    {"{\"a\": ", "[]", "{\"a\": 1, \"c\": 1}", "{\"a\": 1, \"b\": 1}",
     "{\"a\": 1, \"b\": 1, \"x\": 1}"}

Slots == {"absent", "nocard"} \cup CardTexts

\* The tree of one dataset directory in state slot.
DatasetTree(dataset_path, dataset, slot) ==
    IF slot = "absent" THEN Nothing
    ELSE IF slot = "nocard" THEN Tree(Prefixes(dataset_path), <<>>)
    ELSE Tree(Prefixes(dataset_path), Append(dataset_path, dataset \o ".json") :> slot)

\* The union of the trees ts[1], ts[2], ...
RECURSIVE Merge(_)
Merge(ts) == IF ts = <<>> THEN Nothing ELSE Head(ts) @@ Merge(Tail(ts))

\* What can be where the card directory of g2 goes: nothing, a regular file,
\* or a directory that holds a regular file beside its process directory,
\* which holds a regular file beside a dataset directory without a card.
OtherTrees ==
    { Nothing,
      Tree({<<"cards">>}, <<"cards", "g2">> :> ""),
      Tree(Prefixes(<<"cards", "g2", "p1", "d">>),
           (<<"cards", "g2", "README">> :> "") @@ (<<"cards", "g2", "p1", "notes">> :> "")) }

\* A generator directory the configuration does not know, holding a dataset
\* directory without its card.
Unconfigured == Tree(Prefixes(<<"cards", "g9", "p1", "d">>), <<>>)

\* The card trees: the dataset directories of g1/p1 each in any state.  No
\* skeleton is on disk.
CardTrees ==
    { Merge([i \in DOMAIN DatasetNames |->
                DatasetTree(<<"cards", "g1", "p1", DatasetNames[i]>>, DatasetNames[i],
                            slots[i])])
      @@ other @@ Unconfigured
      : slots \in [DOMAIN DatasetNames -> Slots], other \in OtherTrees }

InitCards ==
    /\ config = FullConfig
    /\ fs \in CardTrees
    /\ last = NoRun
    /\ materialized = {}
    /\ dirsMade = FALSE

SpecCards == InitCards /\ [][Next]_vars

----------------------------------------------------------------------------
(* Properties of validate-config and of the configuration keys the other   *)
(* actions read (checked under SpecConfig)                                 *)

StartsWith(str, prefix) ==
    Len(str) >= Len(prefix) /\ SubSeq(str, 1, Len(prefix)) = prefix

\* The number of lines of out that start with prefix.
CountLines(out, prefix) == Cardinality({i \in DOMAIN out : StartsWith(out[i], prefix)})

SectionsPresent ==
    \A k \in {"paths", "generators", "campaigns", "tunes", "parton_showers"} : In(k, config)

PathsPresent ==
    \A k \in {"cards_dir", "campaigns_dir", "fragments_dir", "skeletons_dir",
              "eos_base_path"} : Has2(config, "paths", k)

SchemaPresent ==
    /\ Has2(config, "dataset_schema", "mandatory_attributes")
    /\ Has2(config, "dataset_schema", "optional_attributes")

\* C1: a validate-config run exits 0 exactly when the five sections, the
\* five path keys and dataset_schema with both attribute sets are present;
\* a configuration that lacks one of the five sections gets at least one
\* error line and exit code 1.
C1_ValidIffComplete ==
    last.action = "validate-config" =>
        /\ (last.exit = 0) <=> (SectionsPresent /\ PathsPresent /\ SchemaPresent)
        /\ (validate_config(config)) <=> (last.exit = 0)
        /\ ~SectionsPresent => (CountLines(last.out, "  ERROR: ") >= 1 /\ last.exit = 1)

\* A validate-config run on a configuration without its tunes section, which
\* is reported as an error and ends invalid.
C1_Witness ==
    /\ last.action = "validate-config"
    /\ ~In("tunes", config)
    /\ PathsPresent /\ SchemaPresent
    /\ "  ERROR: Missing required key: tunes" \in Range(last.out)
    /\ last.exit = 1

\* The generators without a description.
Undescribed ==
    IF In("generators", config)
    THEN {g \in KeySet(Get(config, "generators")) :
            ~In("description", Get(Get(config, "generators"), g))}
    ELSE {}

\* The (campaign, field) pairs with the field absent, for tune and beam.
CampaignGaps ==
    IF In("campaigns", config)
    THEN {<<n, k>> \in KeySet(Get(config, "campaigns")) \X {"tune", "beam"} :
            ~In(k, Get(Get(config, "campaigns"), n))}
    ELSE {}

\* C6, as stated: with all required sections and a generator lacking its
\* description, exactly one warning is emitted, and the configuration is
\* valid if there are no errors.
C6_ExactlyOneWarning ==
    (last.action = "validate-config" /\ SectionsPresent /\ Undescribed # {}) =>
        /\ CountLines(last.out, "  WARNING: ") = 1
        /\ (CountLines(last.out, "  ERROR: ") = 0 => last.exit = 0)

\* C6, amended: with all required sections, one warning is emitted for each
\* generator lacking its description and one for each absent tune or beam of
\* a campaign (so exactly one when one generator lacks its description and
\* every campaign has both fields); the run is valid exactly when no error is
\* emitted, whatever the warnings.
C6_OneWarningPerGap ==
    (last.action = "validate-config" /\ SectionsPresent) =>
        /\ CountLines(last.out, "  WARNING: ")
             = Cardinality(Undescribed) + Cardinality(CampaignGaps)
        /\ \A g \in Undescribed :
             ("  WARNING: Generator " \o g \o " missing description") \in Range(last.out)
        /\ (Cardinality(Undescribed) = 1 /\ CampaignGaps = {})
             => CountLines(last.out, "  WARNING: ") = 1
        /\ (last.exit = 0) <=> (CountLines(last.out, "  ERROR: ") = 0)

\* A valid configuration whose only flaw is one generator without a
\* description: one warning, exit code 0.
C6_Witness ==
    /\ last.action = "validate-config"
    /\ SectionsPresent
    /\ Cardinality(Undescribed) = 1 /\ CampaignGaps = {}
    /\ CountLines(last.out, "  WARNING: ") = 1
    /\ last.exit = 0

\* C10: on a configuration validate_config accepts, no run of another action
\* ends with a KeyError, the exception that reading an absent configuration
\* key raises.
C10_ValidatedNeverKeyError ==
    (validate_config(config) /\ last.action # "validate-config") => last.err # "KeyError"

----------------------------------------------------------------------------
(* Properties of check-cards (checked under SpecCards) *)

\* The dataset directories check_cards finds: the directories three levels
\* below cards_dir, under a configured generator.
DatasetDirs ==
    {p \in DOMAIN fs :
        /\ Len(p) = 4
        /\ p[1] = Get(Get(config, "paths"), "cards_dir")
        /\ p[2] \in KeySet(Get(config, "generators"))
        /\ isdir(fs, p)}

CardPath(p) == Append(p, p[Len(p)] \o ".json")

\* The card of dataset directory p is missing, is not JSON, or lacks a
\* mandatory key.
BadCard(p) ==
    \/ ~isfile(fs, CardPath(p))
    \/ json_keys(fs[CardPath(p)].content).err = "JSONDecodeError"
    \/ /\ json_keys(fs[CardPath(p)].content).err = ""
       /\ ~(KeySet(Get(Get(config, "dataset_schema"), "mandatory_attributes"))
             \subseteq json_keys(fs[CardPath(p)].content).keys)

C7_EveryCardExamined ==
    (/\ last.action = "check-cards"
     /\ SchemaPresent
     /\ \A g \in KeySet(Get(config, "generators")) :
          ~isfile(fs, <<Get(Get(config, "paths"), "cards_dir"), g>>)) =>
        /\ last.err = ""
        /\ \E checked, errors \in 0..Cardinality(DatasetDirs) :
             last.out = <<CheckSummary(checked, errors)>>

----------------------------------------------------------------------------
(* Properties of make-dirs and make-cards (checked under SpecMake) *)

\* The target directory of a make-cards run with arguments args.
TargetOf(args) == join(Get(Get(config, "paths"), "cards_dir"), args)

\* The paths at or below p.
Below(f, p) == {q \in DOMAIN f : Len(q) >= Len(p) /\ SubSeq(q, 1, Len(p)) = p}

\* The paths make_dirs visits.
EosPaths ==
    Range(DirPaths(Get(Get(config, "paths"), "eos_base_path"),
                   Keys(Get(config, "campaigns")), Keys(Get(config, "generators")),
                   Get(config, "physics_processes")))

\* C3: once a make-cards --doit run has created the directory of a triple,
\* every later make-cards run for that triple, with or without --doit, ends
\* with the "already exists" error and changes nothing on disk.
C3_RerunRefused ==
    [][(last'.action = "make-cards" /\ last'.args \in materialized) =>
          /\ last'.err = "ERROR: Path already exists: " \o PathStr(TargetOf(last'.args))
          /\ last'.exit = 1
          /\ fs' = fs]_vars

\* A make-cards --doit run for a triple whose directory an earlier run
\* created with its two files: it was refused.
C3_Witness ==
    /\ last.action = "make-cards" /\ last.doit
    /\ last.args = <<"g1", "p1", "e">>
    /\ last.args \in materialized
    /\ last.err = "ERROR: Path already exists: cards/g1/p1/e"
    /\ isfile(fs, <<"cards", "g1", "p1", "e", "e.json">>)
    /\ isfile(fs, <<"cards", "g1", "p1", "e", "run_e.dat">>)

\* C4: once a make-dirs --doit run has run to its end, every later make-dirs
\* --doit run creates no directory, leaves the filesystem as it is and
\* prints only "All directories already exist."; and no make-dirs run
\* reports or touches a path that exists.
C4_MakeDirsIdempotent ==
    [][(last'.action = "make-dirs" /\ SectionsPresent /\ PathsPresent
        /\ In("physics_processes", config)) =>
          /\ (dirsMade /\ last'.doit) =>
                /\ fs' = fs
                /\ last'.out = <<"All directories already exist.">>
                /\ last'.err = ""
          /\ \A p \in EosPaths :
                exists(fs, p) =>
                    /\ ("Would create: " \o PathStr(p)) \notin Range(last'.out)
                    /\ exists(fs', p) /\ fs'[p] = fs[p]]_vars

\* A second make-dirs --doit run: every directory is there and it says so.
C4_Witness ==
    /\ dirsMade
    /\ last.action = "make-dirs" /\ last.doit
    /\ last.out = <<"All directories already exist.">>
    /\ \A p \in EosPaths : isdir(fs, p)

\* C5: a make-dirs or make-cards run without --doit leaves the filesystem as
\* it is, however the run ends.
C5_DryRunNoEffect ==
    [][(last'.action \in {"make-dirs", "make-cards"} /\ ~last'.doit) => fs' = fs]_vars

\* A make-cards run without --doit that printed its plan and ended normally:
\* the target directory is not there; and EOS directories that a make-dirs
\* run would create are still missing.
C5_Witness ==
    /\ last.action = "make-cards" /\ ~last.doit /\ last.err = ""
    /\ "  skeleton.json -> d.json" \in Range(last.out)
    /\ ~exists(fs, TargetOf(last.args))
    /\ \E p \in EosPaths : ~exists(fs, p)

\* The skeleton files listed for generator g.
SkeletonFiles(g) == GetOr(Get(Get(config, "generators"), g), "skeleton_files", <<>>)

\* C8: after a make-cards --doit run that ended normally, for a generator
\* that lists n distinct skeleton files, the target directory holds exactly
\* n files, and the file for template t is named t with "skeleton" replaced
\* by the dataset name and holds t's text with "$process" replaced by the
\* dataset name.
C8_OneFilePerTemplate ==
    (Created(last) /\ Cardinality(Range(SkeletonFiles(last.args[1])))
                        = Len(SkeletonFiles(last.args[1]))) =>
        LET files  == SkeletonFiles(last.args[1])
            target == TargetOf(last.args)
            source == <<Get(Get(config, "paths"), "skeletons_dir"), last.args[1]>>
        IN  /\ Cardinality(Below(fs, target) \ {target}) = Len(files)
            /\ \A i \in DOMAIN files :
                 /\ isfile(fs, Append(target, DstName(files[i], last.args[3])))
                 /\ fs[Append(target, DstName(files[i], last.args[3]))].content
                      = Substitute(fs[Append(source, files[i])].content, last.args[3])

\* C9: a make-cards --doit run that starts with its target directory absent
\* ends, however it ends, either with the target still absent and the
\* filesystem as it was, or with the target holding the destination file of
\* every listed skeleton file.
C9_AllOrNothing ==
    [][(/\ last'.action = "make-cards" /\ last'.doit
        /\ last'.args[3] # ""
        /\ ~exists(fs, TargetOf(last'.args))) =>
          \/ ~exists(fs', TargetOf(last'.args)) /\ fs' = fs
          \/ /\ isdir(fs', TargetOf(last'.args))
             /\ In(last'.args[1], Get(config, "generators"))
             /\ \A t \in Range(SkeletonFiles(last'.args[1])) :
                  isfile(fs', Append(TargetOf(last'.args), DstName(t, last'.args[3])))]_vars

====
